---- MODULE Spec2Model ----
(***************************************************************************)
(* Model of the dual-momentum service: the price-data client               *)
(* (api_client.fetch_prices), the momentum engine (momentum.calculate and  *)
(* its helpers) and the POST /compute handler (main.compute_momentum).     *)
(*                                                                         *)
(* Encoding of Python values:                                              *)
(*   - a date string "YYYY-MM-DD" is the tuple <<y, m, d>>; string order   *)
(*     on zero-padded dates is the lexicographic order of the tuples;      *)
(*   - a datetime is its proleptic Gregorian ordinal (date.toordinal());   *)
(*   - None is the empty tuple; an optional number x is <<x>>;             *)
(*   - a dict is a function; the empty dict is the empty function;         *)
(*   - the float a / b is the exact ratio [num |-> a, den |-> b].          *)
(* Intermediate values of a function body are passed on as operator        *)
(* parameters, one operator per step of the body.                          *)
(***************************************************************************)
EXTENDS Integers, Sequences, FiniteSets, TLC

VARIABLES
    upstream,    \* what the provider answers to the single GET /v1/prices
    request,     \* the ComputeRequest being served
    window,      \* (from_date, to_date) returned by calculate_date_range
    price_data,  \* the mapping returned by fetch_prices
    anchors,     \* the pair returned by find_common_anchors
    response,    \* the answer of POST /compute
    pc           \* "idle" before the request is handled, "done" after

vars == <<upstream, request, window, price_data, anchors, response, pc>>

None == <<>>
NA == <<"N/A">>
EmptyDict == <<>>
IsNone(x) == Len(x) = 0

(***************************************************************************)
(* Bounds of the model.                                                    *)
(***************************************************************************)
MaxN == 2          \* lookback lengths 1..MaxN
MaxPoints == 2     \* quotes in one mapping-shaped answer to the service
ServiceSpan == 3   \* consecutive calendar days quoted to the service
RangeDays == 70    \* consecutive as_of dates of the date-range specification
MaxRows == 2       \* rows in one list-shaped answer
AnchorPoints == 3  \* quotes in one answer of the anchor specification
AnchorSpan == 10   \* consecutive calendar days quoted in the anchor specification

(***************************************************************************)
(* Calendar arithmetic of datetime / timedelta / relativedelta.            *)
(***************************************************************************)
IsLeap(y) == (y % 4 = 0) /\ ((y % 100 # 0) \/ (y % 400 = 0))

DaysInMonth(y, m) ==
    IF m = 2 THEN (IF IsLeap(y) THEN 29 ELSE 28)
    ELSE IF m \in {4, 6, 9, 11} THEN 30 ELSE 31

DaysBeforeYear(y) ==
    (y - 1) * 365 + ((y - 1) \div 4) - ((y - 1) \div 100) + ((y - 1) \div 400)

\* days of the year before the first of the month
DaysBeforeMonth(y, m) ==
    <<0, 31, 59, 90, 120, 151, 181, 212, 243, 273, 304, 334>>[m]
    + (IF m > 2 /\ IsLeap(y) THEN 1 ELSE 0)

\* datetime(y, m, d) as an ordinal
toordinal(s) == DaysBeforeYear(s[1]) + DaysBeforeMonth(s[1], s[2]) + s[3]

\* the (y, m, d) of an ordinal: 400-, 100-, 4- and 1-year cycles, then the month
MonthOfYearDay(year, n) ==
    CHOOSE m \in 1..12 :
        /\ DaysBeforeMonth(year, m) <= n
        /\ n < DaysBeforeMonth(year, m) + DaysInMonth(year, m)

YearDayToDate(year, month, n) == <<year, month, n - DaysBeforeMonth(year, month) + 1>>

Cycle1(year, n100, n1, n) ==
    IF n1 = 4 \/ n100 = 4 THEN <<year - 1, 12, 31>>
    ELSE YearDayToDate(year, MonthOfYearDay(year, n), n)

Cycle4(n400, n100, n4, n) ==
    Cycle1(n400 * 400 + 1 + n100 * 100 + n4 * 4 + (n \div 365), n100, n \div 365, n % 365)

Cycle100(n400, n100, n) == Cycle4(n400, n100, n \div 1461, n % 1461)

Cycle400(n400, n) == Cycle100(n400, n \div 36524, n % 36524)

fromordinal(o) == Cycle400((o - 1) \div 146097, (o - 1) % 146097)

\* datetime.weekday(): Monday = 0 ... Saturday = 5, Sunday = 6
weekday(o) == (o + 6) % 7

\* does datetime.strptime(s, "%Y-%m-%d") accept the text
ValidDate(s) ==
    /\ Len(s) = 3
    /\ s[1] >= 1
    /\ s[2] \in 1..12
    /\ s[3] >= 1
    /\ s[3] <= DaysInMonth(s[1], s[2])

strptime(s) == toordinal(s)
strftime(o) == fromordinal(o)

\* does "year, month = map(int, s.split('-'))" followed by datetime(year, month, 1) succeed
ValidMonth(s) == Len(s) = 2 /\ s[1] >= 1 /\ s[2] \in 1..12

\* dt + relativedelta(months = k), k of either sign: the day is clamped to the
\* length of the resulting month
ClampDay(y, m, d) ==
    toordinal(<<y, m, IF d <= DaysInMonth(y, m) THEN d ELSE DaysInMonth(y, m)>>)

ShiftMonths(s, k) ==
    ClampDay((s[1] * 12 + (s[2] - 1) + k) \div 12,
             ((s[1] * 12 + (s[2] - 1) + k) % 12) + 1,
             s[3])

relativedelta_months(o, k) == ShiftMonths(fromordinal(o), k)

\* s <= t on "YYYY-MM-DD" strings
StrLE(s, t) ==
    \/ s[1] < t[1]
    \/ s[1] = t[1] /\ s[2] < t[2]
    \/ s[1] = t[1] /\ s[2] = t[2] /\ s[3] <= t[3]

\* d.startswith(prefix), the prefix being the "%Y-%m" of a date
startswith(d, prefix) == d[1] = prefix[1] /\ d[2] = prefix[2]

MinDate(S) == CHOOSE x \in S : \A y \in S : StrLE(x, y)

\* sorted(S) for a set of date strings
RECURSIVE sorted(_)
sorted(S) == IF S = {} THEN <<>> ELSE <<MinDate(S)>> \o sorted(S \ {MinDate(S)})

Abs(x) == IF x < 0 THEN 0 - x ELSE x
Max(S) == CHOOSE x \in S : \A y \in S : y <= x
Min(S) == CHOOSE x \in S : \A y \in S : x <= y

(***************************************************************************)
(* momentum.round_to_saturday                                              *)
(***************************************************************************)
round_to_saturday_same_week(date) ==
    IF weekday(date) = 6 THEN date - 1 ELSE date + ((5 - weekday(date)) % 7)

round_to_saturday(date) ==
    IF (5 - weekday(date)) % 7 = 0 /\ weekday(date) # 5
    THEN date + 7
    ELSE date + ((5 - weekday(date)) % 7)

(***************************************************************************)
(* momentum.calculate_date_range.  raised = TRUE when the parsing of       *)
(* as_of_period throws.                                                    *)
(***************************************************************************)
DateRange(from_dt, to_dt) ==
    [raised |-> FALSE, from_date |-> strftime(from_dt), to_date |-> strftime(to_dt)]

RangeRaised == [raised |-> TRUE, from_date |-> None, to_date |-> None]

month_range(to_dt, n) == DateRange(relativedelta_months(to_dt, 0 - (n + 1)), to_dt)

week_range(to_dt, n) == DateRange(to_dt - 7 * (n + 1), to_dt)

day_range(to_dt, n) == DateRange(to_dt - (n + 20) * 2, to_dt)

calculate_date_range(unit, n, as_of_period) ==
    IF unit = "month"
    THEN IF ~ValidMonth(as_of_period) THEN RangeRaised
         ELSE month_range(
                relativedelta_months(toordinal(<<as_of_period[1], as_of_period[2], 1>>), 1) - 1,
                n)
    ELSE IF ~ValidDate(as_of_period) THEN RangeRaised
    ELSE IF unit = "week"
    THEN week_range(round_to_saturday(strptime(as_of_period)), n)
    ELSE day_range(strptime(as_of_period), n)

(***************************************************************************)
(* api_client.fetch_prices.  The provider's answer is a record             *)
(*   [kind, body]: kind "status" (a status other than 200), "timeout",     *)
(*   "transport" (requests.RequestException), "unparseable" (json() fails),*)
(*   "scalar" (a JSON value that is neither an object nor an array),       *)
(*   "mapping" (symbol -> list of points) or "list" (flat rows).           *)
(***************************************************************************)
\* row.get(key)
get(row, key) == IF key \in DOMAIN row THEN <<row[key]>> ELSE None

\* Python truth value of an optional string / date string / number
TruthyStr(x) == ~IsNone(x) /\ x[1] # ""
TruthyDate(x) == ~IsNone(x) /\ Len(x[1]) # 0
TruthyNum(x) == ~IsNone(x) /\ x[1] # 0

\* the first entry of v with the least date
FirstLeast(v) ==
    CHOOSE j \in 1..Len(v) :
        /\ \A k \in 1..Len(v) : StrLE(v[j].date, v[k].date)
        /\ \A k \in 1..(j - 1) : v[k].date # v[j].date

Without(v, i) == SubSeq(v, 1, i - 1) \o SubSeq(v, i + 1, Len(v))

\* sorted(v, key = lambda x: x["date"]): stable, ascending by date
RECURSIVE sorted_by_date(_)
sorted_by_date(v) ==
    IF v = <<>> THEN <<>>
    ELSE <<v[FirstLeast(v)]>> \o sorted_by_date(Without(v, FirstLeast(v)))

\* row.get("symbol") or row.get("ticker") or row.get("Symbol")
row_symbol(row) ==
    IF TruthyStr(get(row, "symbol")) THEN get(row, "symbol")
    ELSE IF TruthyStr(get(row, "ticker")) THEN get(row, "ticker")
    ELSE get(row, "Symbol")

\* row.get("date") or row.get("Date")
row_date(row) ==
    IF TruthyDate(get(row, "date")) THEN get(row, "date") ELSE get(row, "Date")

\* row.get("close") or row.get("Close")
row_close(row) ==
    IF TruthyNum(get(row, "close")) THEN get(row, "close") ELSE get(row, "Close")

\* the rows the loop keeps: not (not sym or not d or c is None)
row_kept(row) ==
    /\ TruthyStr(row_symbol(row))
    /\ TruthyDate(row_date(row))
    /\ ~IsNone(row_close(row))

\* tmp[sym]: the kept rows of the symbol, in arrival order
RECURSIVE rows_of(_, _)
rows_of(data, sym) ==
    IF data = <<>> THEN <<>>
    ELSE IF row_kept(Head(data)) /\ row_symbol(Head(data))[1] = sym
    THEN <<[date |-> row_date(Head(data))[1], close |-> row_close(Head(data))[1]]>>
         \o rows_of(Tail(data), sym)
    ELSE rows_of(Tail(data), sym)

from_mapping(data) ==
    [ticker \in DOMAIN data |->
        IF data[ticker] # <<>>
        THEN [i \in 1..Len(data[ticker]) |->
                [date |-> data[ticker][i].date, close |-> data[ticker][i].close]]
        ELSE <<>>]

from_list(data) ==
    [k \in {row_symbol(data[i])[1] : i \in {j \in 1..Len(data) : row_kept(data[j])}} |->
        sorted_by_date(rows_of(data, k))]

fetch_prices(reply) ==
    IF reply.kind \in {"timeout", "transport"} THEN EmptyDict
    ELSE IF reply.kind = "status" THEN EmptyDict
    ELSE IF reply.kind = "unparseable" THEN EmptyDict
    ELSE IF reply.kind = "mapping" THEN from_mapping(reply.body)
    ELSE IF reply.kind = "list" THEN from_list(reply.body)
    ELSE EmptyDict

(***************************************************************************)
(* momentum.find_common_anchors                                            *)
(***************************************************************************)
RECURSIVE Intersection(_)
Intersection(sets) ==
    IF Cardinality(sets) = 1 THEN CHOOSE x \in sets : TRUE
    ELSE (CHOOSE x \in sets : TRUE) \cap Intersection(sets \ {CHOOSE x \in sets : TRUE})

\* the date sets of the tickers with a non-empty series
date_sets(prices) ==
    {{prices[t][i].date : i \in 1..Len(prices[t])} :
        t \in {s \in DOMAIN prices : prices[s] # <<>>}}

\* "for d in reversed(dates): if <test>: anchor = d; break", hits being the
\* positions that pass the test
LastHit(dates, hits) == IF hits = {} THEN None ELSE dates[Max(hits)]

current_anchor_month(common_dates, target_prefix) ==
    LastHit(common_dates,
            {i \in 1..Len(common_dates) : startswith(common_dates[i], target_prefix)})

current_anchor_week(common_dates, saturday) ==
    LastHit(common_dates,
            {i \in 1..Len(common_dates) :
                /\ saturday - 6 <= strptime(common_dates[i])
                /\ strptime(common_dates[i]) <= saturday})

current_anchor_day(common_dates, base) ==
    LastHit(common_dates, {i \in 1..Len(common_dates) : StrLE(common_dates[i], base)})

current_anchor_of(common_dates, unit, as_of_period) ==
    IF unit = "month"
    THEN current_anchor_month(
            common_dates,
            strftime(toordinal(<<as_of_period[1], as_of_period[2], 1>>) - 1))
    ELSE IF unit = "week"
    THEN current_anchor_week(common_dates, round_to_saturday(strptime(as_of_period)))
    ELSE current_anchor_day(common_dates, as_of_period)

\* common_dates.index(current_anchor), counted from 0
index(common_dates, current_anchor) ==
    Min({i \in 1..Len(common_dates) : common_dates[i] = current_anchor}) - 1

past_anchor_month(common_dates, current_idx, target_prefix) ==
    LastHit(common_dates,
            {i \in 1..current_idx : startswith(common_dates[i], target_prefix)})

\* the loop over common_dates[:current_idx]; min_diff = None stands for inf
RECURSIVE week_scan_later_wins(_, _, _, _, _, _)
week_scan_later_wins(common_dates, i, current_idx, target_friday, min_diff, past_anchor) ==
    IF i > current_idx THEN past_anchor
    ELSE IF /\ \/ IsNone(min_diff)
               \/ Abs(strptime(common_dates[i]) - target_friday) <= min_diff[1]
            /\ Abs(strptime(common_dates[i]) - target_friday) <= 7
    THEN week_scan_later_wins(common_dates, i + 1, current_idx, target_friday,
                              <<Abs(strptime(common_dates[i]) - target_friday)>>,
                              common_dates[i])
    ELSE week_scan_later_wins(common_dates, i + 1, current_idx, target_friday,
                              min_diff, past_anchor)

RECURSIVE week_scan(_, _, _, _, _, _)
week_scan(common_dates, i, current_idx, target_friday, min_diff, past_anchor) ==
    IF i > current_idx THEN past_anchor
    ELSE IF /\ \/ IsNone(min_diff)
               \/ Abs(strptime(common_dates[i]) - target_friday) < min_diff[1]
            /\ Abs(strptime(common_dates[i]) - target_friday) <= 7
    THEN week_scan(common_dates, i + 1, current_idx, target_friday,
                   <<Abs(strptime(common_dates[i]) - target_friday)>>, common_dates[i])
    ELSE week_scan(common_dates, i + 1, current_idx, target_friday, min_diff, past_anchor)

past_anchor_week(common_dates, current_idx, target_friday) ==
    week_scan(common_dates, 1, current_idx, target_friday, None, None)

past_anchor_day_one_short(common_dates, current_idx, n) ==
    IF current_idx >= n - 1 THEN common_dates[(current_idx - (n - 1)) + 1] ELSE None

past_anchor_day(common_dates, current_idx, n) ==
    IF current_idx >= n THEN common_dates[(current_idx - n) + 1] ELSE None

past_anchor_of(common_dates, current_idx, current_anchor, unit, n) ==
    IF unit = "month"
    THEN past_anchor_month(
            common_dates, current_idx,
            strftime(relativedelta_months(strptime(current_anchor), 0 - n)))
    ELSE IF unit = "week"
    THEN past_anchor_week(common_dates, current_idx,
                          (strptime(current_anchor) - 7 * n) - 1)
    ELSE past_anchor_day(common_dates, current_idx, n)

anchors_from_current(common_dates, current_anchor, unit, n) ==
    IF IsNone(current_anchor) THEN <<None, None>>
    ELSE <<current_anchor,
           past_anchor_of(common_dates, index(common_dates, current_anchor),
                          current_anchor, unit, n)>>

anchors_from_common(common_dates, unit, n, as_of_period) ==
    IF common_dates = <<>> THEN <<None, None>>
    ELSE anchors_from_current(common_dates,
                              current_anchor_of(common_dates, unit, as_of_period),
                              unit, n)

anchors_from_sets(sets, unit, n, as_of_period) ==
    IF sets = {} THEN <<None, None>>
    ELSE anchors_from_common(sorted(Intersection(sets)), unit, n, as_of_period)

find_common_anchors(prices, unit, n, as_of_period) ==
    IF DOMAIN prices = {} THEN <<None, None>>
    ELSE anchors_from_sets(date_sets(prices), unit, n, as_of_period)

(***************************************************************************)
(* momentum.find_price_on_date and momentum.calculate                      *)
(***************************************************************************)
find_price_on_date(prices, target_date) ==
    IF {i \in 1..Len(prices) : prices[i].date = target_date} = {} THEN None
    ELSE <<prices[Min({i \in 1..Len(prices) : prices[i].date = target_date})].close>>

\* a / b
Quotient(a, b) == [num |-> a, den |-> b]

\* q - 1
MinusOne(q) == [num |-> q.num - q.den, den |-> q.den]

momentum_of_unguarded(current_price, past_price) ==
    IF ~IsNone(current_price) /\ ~IsNone(past_price)
    THEN <<MinusOne(Quotient(current_price[1], past_price[1]))>>
    ELSE None

\* lines 61-65: the value appended for one ticker with a series
momentum_of(current_price, past_price) ==
    IF ~IsNone(current_price) /\ ~IsNone(past_price) /\ past_price[1] # 0
    THEN <<MinusOne(Quotient(current_price[1], past_price[1]))>>
    ELSE None

\* one pass of the loop body of step 4
ticker_momentum(prices, ticker, current_anchor, past_anchor) ==
    IF ticker \notin DOMAIN prices THEN None
    ELSE IF prices[ticker] = <<>> THEN None
    ELSE momentum_of(find_price_on_date(prices[ticker], current_anchor),
                     find_price_on_date(prices[ticker], past_anchor))

RECURSIVE momentum_results_skipping(_, _, _, _)
momentum_results_skipping(prices, tickers, current_anchor, past_anchor) ==
    IF tickers = <<>> THEN <<>>
    ELSE IF Head(tickers) \notin DOMAIN prices
    THEN momentum_results_skipping(prices, Tail(tickers), current_anchor, past_anchor)
    ELSE <<ticker_momentum(prices, Head(tickers), current_anchor, past_anchor)>>
         \o momentum_results_skipping(prices, Tail(tickers), current_anchor, past_anchor)

\* the loop of step 4
RECURSIVE momentum_results(_, _, _, _)
momentum_results(prices, tickers, current_anchor, past_anchor) ==
    IF tickers = <<>> THEN <<>>
    ELSE <<ticker_momentum(prices, Head(tickers), current_anchor, past_anchor)>>
         \o momentum_results(prices, Tail(tickers), current_anchor, past_anchor)

\* the anchors of the early return of line 49
no_anchors_as_found(found) == [current |-> found[1], past |-> found[2]]

no_anchors(found) == [current |-> NA, past |-> NA]

calculate_step4(tickers, range, prices, found) ==
    IF IsNone(found[1]) \/ IsNone(found[2])
    THEN [raised |-> FALSE, window |-> <<range.from_date, range.to_date>>,
          prices |-> prices, found |-> found,
          results |-> [i \in 1..Len(tickers) |-> None],
          anchors |-> no_anchors(found)]
    ELSE [raised |-> FALSE, window |-> <<range.from_date, range.to_date>>,
          prices |-> prices, found |-> found,
          results |-> momentum_results(prices, tickers, found[1], found[2]),
          anchors |-> [current |-> found[1], past |-> found[2]]]

calculate_step3(tickers, unit, n, as_of_period, range, prices) ==
    calculate_step4(tickers, range, prices,
                    find_common_anchors(prices, unit, n, as_of_period))

calculate_step2(tickers, unit, n, as_of_period, reply, range) ==
    IF range.raised
    THEN [raised |-> TRUE, window |-> None, prices |-> EmptyDict,
          found |-> <<None, None>>, results |-> <<>>,
          anchors |-> [current |-> NA, past |-> NA]]
    ELSE calculate_step3(tickers, unit, n, as_of_period, range, fetch_prices(reply))

\* the record holds what calculate returns (results, anchors) or that it raised,
\* and the values of its local variables
calculate(tickers, unit, n, as_of_period, reply) ==
    calculate_step2(tickers, unit, n, as_of_period, reply,
                    calculate_date_range(unit, n, as_of_period))

(***************************************************************************)
(* main.compute_momentum: POST /compute.  ComputeResponse declares         *)
(* anchors: Dict[str, str], so an anchor that is None fails its validation;*)
(* every exception inside the try block becomes a 500.                     *)
(***************************************************************************)
anchors_validate(a) == ~IsNone(a.current) /\ ~IsNone(a.past)

Respond(req, r) ==
    /\ window' = r.window
    /\ price_data' = r.prices
    /\ anchors' = r.found
    /\ response' =
            IF r.raised \/ ~anchors_validate(r.anchors)
            THEN [status |-> 500, results |-> <<>>,
                  anchors |-> [current |-> NA, past |-> NA]]
            ELSE [status |-> 200, results |-> r.results, anchors |-> r.anchors]
    /\ request' = req
    /\ pc' = "done"
    /\ UNCHANGED upstream

\* the handler, for the requests that pass the validation of ComputeRequest
compute_momentum(requests) ==
    /\ pc = "idle"
    /\ \E req \in requests :
            Respond(req, calculate(req.tickers, req.unit, req.n, req.as_of_period, upstream))

(***************************************************************************)
(* Inputs.                                                                 *)
(***************************************************************************)
MaxTickers == 3

Symbols == {"AAA", "BBB"}
Closes == {0, 100, 110}

\* consecutive calendar days from / up to a date
DaysFrom(first, span) == {fromordinal(toordinal(first) + k) : k \in 0..(span - 1)}
DaysUpTo(last, span) == {fromordinal(toordinal(last) - k) : k \in 0..(span - 1)}

ServiceDays == DaysFrom(<<2024, 1, 31>>, ServiceSpan)
AnchorDays == DaysUpTo(<<2024, 3, 2>>, AnchorSpan)

\* does a set of quotes hold a quote of the symbol on the day
Quoted(T, s, d) == \E p \in T : p.symbol = s /\ p.date = d

\* one more quote, for a symbol and a day not yet quoted
Extended(T, days, closes) ==
    {T \cup {[symbol |-> s, date |-> d, close |-> c]} :
        <<s, d, c>> \in {x \in Symbols \X days \X closes : ~Quoted(T, x[1], x[2])}}

\* sets of at most k quotes, one per symbol and day
RECURSIVE PointSets(_, _, _)
PointSets(days, closes, k) ==
    IF k = 0 THEN {{}}
    ELSE PointSets(days, closes, k - 1)
         \cup UNION {Extended(T, days, closes) : T \in PointSets(days, closes, k - 1)}

QuoteOn(T, s, d) == CHOOSE q \in T : q.symbol = s /\ q.date = d

SeriesOn(T, s, days) ==
    [i \in 1..Len(days) |->
        [date |-> QuoteOn(T, s, days[i]).date, close |-> QuoteOn(T, s, days[i]).close]]

\* the series of a symbol in a set of quotes, ascending by date
SeriesOf(T, s) == SeriesOn(T, s, sorted({p.date : p \in {q \in T : q.symbol = s}}))

\* the mapping-shaped answers: every quoted symbol, and either none or all of
\* the unquoted symbols with an empty list
MappingBodies(days, closes, k) ==
    {[s \in {p.symbol : p \in x[1]} \cup x[2] |-> SeriesOf(x[1], s)] :
        x \in PointSets(days, closes, k) \X {{}, Symbols}}

FailureKinds == {"status", "timeout", "transport", "unparseable", "scalar"}
Failures == {[kind |-> k, body |-> <<>>] : k \in FailureKinds}

\* the non-empty ticker lists of at most MaxTickers symbols
TickerLists == UNION {[1..len -> Symbols] : len \in 1..MaxTickers}

NoRequest == [tickers |-> <<>>, unit |-> "none", n |-> 0, as_of_period |-> <<>>]

InitWith(replies) ==
    /\ upstream \in replies
    /\ request = NoRequest
    /\ window = None
    /\ price_data = EmptyDict
    /\ anchors = <<None, None>>
    /\ response = [status |-> 0, results |-> <<>>, anchors |-> [current |-> NA, past |-> NA]]
    /\ pc = "idle"

(***************************************************************************)
(* Spec: the service against a provider that quotes ServiceDays or fails.  *)
(***************************************************************************)
ServiceAsOf(unit) == IF unit = "month" THEN <<2024, 3>> ELSE <<2024, 2, 2>>

ServiceRequests ==
    {[tickers |-> t, unit |-> u, n |-> k, as_of_period |-> ServiceAsOf(u)] :
        t \in TickerLists, u \in {"month", "week", "day"}, k \in 1..MaxN}
    \cup
    {[tickers |-> <<"AAA">>, unit |-> x[1], n |-> 1, as_of_period |-> x[2]] :
        x \in {<<"month", <<2024, 13>>>>, <<"month", <<2024, 2, 2>>>>,
               <<"week", <<2024, 2, 30>>>>, <<"day", <<2024, 2>>>>}}

Init ==
    InitWith(Failures \cup
             {[kind |-> "mapping", body |-> b] :
                b \in MappingBodies(ServiceDays, Closes, MaxPoints)})

Next == compute_momentum(ServiceRequests)

Spec == Init /\ [][Next]_vars

(***************************************************************************)
(* SpecAnchors: week and day requests against a provider that quotes any   *)
(* of the AnchorDays (the days up to Saturday 2024-03-02) at one price.    *)
(***************************************************************************)
AnchorRequests ==
    {[tickers |-> <<"AAA", "BBB">>, unit |-> u, n |-> k, as_of_period |-> p] :
        u \in {"week", "day"}, k \in 1..MaxN, p \in {<<2024, 3, 2>>, <<2024, 2, 28>>}}

InitAnchors ==
    InitWith({[kind |-> "mapping", body |-> b] :
                b \in MappingBodies(AnchorDays, {100}, AnchorPoints)})

NextAnchors == compute_momentum(AnchorRequests)

SpecAnchors == InitAnchors /\ [][NextAnchors]_vars

(***************************************************************************)
(* SpecDateRange: the fetch window of every request of RangeDays days   *)
(* and two years of months, the provider timing out.                       *)
(***************************************************************************)
RangeAsOf(unit) ==
    IF unit = "month" THEN (2023..2024) \X (1..12) ELSE DaysFrom(<<2024, 1, 1>>, RangeDays)

RangeRequests ==
    UNION {{[tickers |-> <<"AAA">>, unit |-> u, n |-> k, as_of_period |-> p] :
                p \in RangeAsOf(u), k \in 1..MaxN} :
            u \in {"month", "week", "day"}}

InitDateRange == InitWith({[kind |-> "timeout", body |-> <<>>]})

NextDateRange == compute_momentum(RangeRequests)

SpecDateRange == InitDateRange /\ [][NextDateRange]_vars

(***************************************************************************)
(* SpecRows: the service against a provider that answers a flat list of at *)
(* most MaxRows rows, each field of a row present under one of its keys or *)
(* missing.                                                                *)
(***************************************************************************)
NoKey == <<>>

SymbolFields == {NoKey, "symbol" :> "AAA", "ticker" :> "BBB", "Symbol" :> "AAA"}
DateFields == {NoKey, "date" :> <<2024, 2, 2>>, "Date" :> <<2024, 2, 1>>}
CloseFields == {NoKey, "close" :> 0, "close" :> 100, "Close" :> 110}

Rows == {x[1] @@ x[2] @@ x[3] : x \in SymbolFields \X DateFields \X CloseFields}

ListBodies == UNION {[1..len -> Rows] : len \in 0..MaxRows}

RowsRequests ==
    {[tickers |-> <<"AAA", "BBB">>, unit |-> "day", n |-> 1, as_of_period |-> <<2024, 2, 2>>]}

InitRows == InitWith({[kind |-> "list", body |-> b] : b \in ListBodies})

NextRows == compute_momentum(RowsRequests)

SpecRows == InitRows /\ [][NextRows]_vars

(***************************************************************************)
(* Vocabulary of the properties.                                           *)
(***************************************************************************)
Done == pc = "done"
Answered == pc = "done" /\ response.status = 200
WellFormed(req) ==
    IF req.unit = "month" THEN ValidMonth(req.as_of_period) ELSE ValidDate(req.as_of_period)
IsNA(x) == Len(x) = 1 /\ x[1] = "N/A"
Present(v) == Len(v) = 1
AllAbsent(results, tickers) ==
    /\ Len(results) = Len(tickers)
    /\ \A i \in 1..Len(results) : IsNone(results[i])

\* the ticker has a non-empty series in the dataset
HasSeries(prices, t) == t \in DOMAIN prices /\ Len(prices[t]) > 0

\* the closes of the ticker's entries dated d
ClosesOn(prices, t, d) ==
    {prices[t][i].close : i \in {j \in 1..Len(prices[t]) : prices[t][j].date = d}}

\* v = c / p - 1 as rationals, by cross-multiplication
IsReturn(v, c, p) == v.den # 0 /\ p # 0 /\ (v.num + v.den) * p = c * v.den

\* the dates every non-empty series of the dataset holds
AllDates(prices) ==
    UNION {{prices[t][i].date : i \in 1..Len(prices[t])} : t \in DOMAIN prices}
CommonDates(prices) ==
    {d \in AllDates(prices) :
        \A t \in DOMAIN prices : Len(prices[t]) > 0 => ClosesOn(prices, t, d) # {}}
Before(dates, d) == {e \in dates : toordinal(e) < toordinal(d)}

(***************************************************************************)
(* C1: whenever calculate returns, the value list has one entry per        *)
(* requested ticker, in the request's order: entry i is computed from the  *)
(* closes of tickers[i] on the two anchors of the response, and it is      *)
(* absent, in place, when tickers[i] has no usable price there.            *)
(***************************************************************************)
UsableAt(prices, t, a) ==
    /\ ~IsNA(a.current)
    /\ ~IsNA(a.past)
    /\ HasSeries(prices, t)
    /\ ClosesOn(prices, t, a.current) # {}
    /\ ClosesOn(prices, t, a.past) \ {0} # {}

C1_ResultsAlignedWithTickers ==
    Answered =>
        /\ Len(response.results) = Len(request.tickers)
        /\ \A i \in 1..Len(request.tickers) :
            IF UsableAt(price_data, request.tickers[i], response.anchors)
            THEN /\ Present(response.results[i])
                 /\ \E c \in ClosesOn(price_data, request.tickers[i], response.anchors.current),
                       p \in ClosesOn(price_data, request.tickers[i], response.anchors.past) :
                        IsReturn(response.results[i][1], c, p)
            ELSE IsNone(response.results[i])

C1_Witness ==
    /\ Answered
    /\ Len(request.tickers) = 3
    /\ IsNone(response.results[1])
    /\ Present(response.results[2])
    /\ IsNone(response.results[3])

(***************************************************************************)
(* C2: for a well-formed as_of_period, when the upstream call ends in a    *)
(* non-200 status, a timeout, a transport failure, an unparseable body or  *)
(* a body that is neither a mapping nor a list, fetch_prices returns the   *)
(* empty mapping and POST /compute answers 200 with one absent value per   *)
(* ticker and the anchors N/A, N/A -- never a 500.                         *)
(***************************************************************************)
C2_UpstreamFailureFailsSoft ==
    (Done /\ upstream.kind \in FailureKinds /\ WellFormed(request)) =>
        /\ DOMAIN price_data = {}
        /\ response.status = 200
        /\ AllAbsent(response.results, request.tickers)
        /\ IsNA(response.anchors.current)
        /\ IsNA(response.anchors.past)

C2_Witness ==
    /\ Done
    /\ upstream.kind = "timeout"
    /\ WellFormed(request)
    /\ Len(request.tickers) = 2
    /\ response.status = 200
    /\ AllAbsent(response.results, request.tickers)

(***************************************************************************)
(* C3: when both anchors are found, the value of a requested ticker is     *)
(* present exactly when the ticker has a non-empty series with an entry on *)
(* the current anchor, an entry on the past anchor and a non-zero past     *)
(* close, and then it is current_close / past_close - 1.                   *)
(***************************************************************************)
C3_ValuePresentIffBothCloses ==
    (Answered /\ ~IsNone(anchors[1]) /\ ~IsNone(anchors[2])) =>
        \A i \in 1..Len(request.tickers) :
            /\ Present(response.results[i]) <=>
                    /\ HasSeries(price_data, request.tickers[i])
                    /\ ClosesOn(price_data, request.tickers[i], anchors[1]) # {}
                    /\ ClosesOn(price_data, request.tickers[i], anchors[2]) # {}
                    /\ 0 \notin ClosesOn(price_data, request.tickers[i], anchors[2])
            /\ Present(response.results[i]) =>
                    \A c \in ClosesOn(price_data, request.tickers[i], anchors[1]),
                       p \in ClosesOn(price_data, request.tickers[i], anchors[2]) :
                        IsReturn(response.results[i][1], c, p)

\* one ticker gets its return, 110 / 100 - 1, while another, without an entry on
\* the past anchor, gets an absent value
C3_Witness ==
    /\ Answered
    /\ ~IsNone(anchors[1])
    /\ ~IsNone(anchors[2])
    /\ \E i, j \in 1..Len(request.tickers) :
        /\ Present(response.results[i])
        /\ response.results[i][1] = [num |-> 10, den |-> 100]
        /\ IsNone(response.results[j])
        /\ \/ ~HasSeries(price_data, request.tickers[j])
           \/ ClosesOn(price_data, request.tickers[j], anchors[2]) = {}

(***************************************************************************)
(* C4 (as stated): for unit = month, to_date is the last calendar day of   *)
(* the month before the as_of_period month (the day before the first of    *)
(* the as_of_period month) and from_date is n + 1 months before it; month, *)
(* n = 1, 2024-03 gives 2024-02-29 and 2023-12-29.                         *)
(***************************************************************************)
FirstOfMonth(p) == toordinal(<<p[1], p[2], 1>>)

C4_MonthWindowEndsBeforeAsOfMonth ==
    (Answered /\ request.unit = "month") =>
        /\ window[2] = fromordinal(FirstOfMonth(request.as_of_period) - 1)
        /\ window[1] = fromordinal(
                relativedelta_months(FirstOfMonth(request.as_of_period) - 1,
                                     0 - (request.n + 1)))
        /\ (request.as_of_period = <<2024, 3>> /\ request.n = 1) =>
                window = <<<<2023, 12, 29>>, <<2024, 2, 29>>>>

(***************************************************************************)
(* C5: round_to_saturday(d) is a Saturday not earlier than d; Monday to    *)
(* Saturday it is at most 6 days later (a Saturday is unchanged, Tuesday   *)
(* 2024-01-02 gives 2024-01-06); for a Sunday it is the Saturday 7 days    *)
(* after the Saturday just before that Sunday.  Read off the to_date of    *)
(* the week window, which is round_to_saturday(as_of_period).              *)
(***************************************************************************)
RoundsAsClaimed(d, s) ==
    /\ weekday(s) = 5
    /\ s >= d
    /\ weekday(d) # 6 => s - d <= 6
    /\ weekday(d) = 5 => s = d
    /\ weekday(d) = 6 => s = (d - 1) + 7

C5_RoundToSaturday ==
    (Answered /\ request.unit = "week") =>
        /\ RoundsAsClaimed(toordinal(request.as_of_period), toordinal(window[2]))
        /\ request.as_of_period = <<2024, 1, 2>> => window[2] = <<2024, 1, 6>>

\* a Sunday, rounded to the Saturday six days later
C5_Witness ==
    /\ Answered
    /\ request.unit = "week"
    /\ request.as_of_period = <<2024, 1, 7>>
    /\ weekday(toordinal(request.as_of_period)) = 6
    /\ window[2] = <<2024, 1, 13>>

(***************************************************************************)
(* C6 (as stated): find_common_anchors returns two dates or (None, None),  *)
(* never exactly one date.                                                 *)
(***************************************************************************)
C6_AnchorsBothOrNeither ==
    Done => (IsNone(anchors[1]) <=> IsNone(anchors[2]))

(***************************************************************************)
(* C7: for unit = week the past anchor is, among the common dates strictly *)
(* earlier than the current anchor, the one nearest in days to the target  *)
(* (the day before the date n weeks before the current anchor), the        *)
(* earlier date winning a tie, accepted only within 7 days of the target;  *)
(* with no earlier common date within 7 days there is no past anchor.      *)
(***************************************************************************)
WeekTarget(current, n) == (toordinal(current) - 7 * n) - 1
Distance(d, target) == Abs(toordinal(d) - target)
Near(dates, target) == {d \in dates : Distance(d, target) <= 7}

NearestEarliest(past, candidates, target) ==
    /\ past \in candidates
    /\ \A e \in candidates :
        \/ Distance(past, target) < Distance(e, target)
        \/ /\ Distance(past, target) = Distance(e, target)
           /\ toordinal(past) <= toordinal(e)

C7_WeekPastAnchorNearestWithin7 ==
    (Done /\ request.unit = "week" /\ ~IsNone(anchors[1])) =>
        IF Near(Before(CommonDates(price_data), anchors[1]),
                WeekTarget(anchors[1], request.n)) = {}
        THEN IsNone(anchors[2])
        ELSE NearestEarliest(anchors[2],
                             Near(Before(CommonDates(price_data), anchors[1]),
                                  WeekTarget(anchors[1], request.n)),
                             WeekTarget(anchors[1], request.n))

\* two earlier common dates at the same distance from the target, the earlier chosen
C7_Witness ==
    /\ Done
    /\ request.unit = "week"
    /\ ~IsNone(anchors[1])
    /\ ~IsNone(anchors[2])
    /\ \E e \in Before(CommonDates(price_data), anchors[1]) :
        /\ e # anchors[2]
        /\ Distance(e, WeekTarget(anchors[1], request.n))
            = Distance(anchors[2], WeekTarget(anchors[1], request.n))
        /\ toordinal(anchors[2]) < toordinal(e)

(***************************************************************************)
(* C8: for unit = day the current anchor is the latest common date <=      *)
(* as_of_period and the past anchor is the common date n positions before  *)
(* it in ascending order; with fewer than n common dates before the        *)
(* current anchor there is no past anchor and calculate returns all-absent *)
(* values with the anchors N/A, N/A.                                       *)
(***************************************************************************)
UpTo(dates, d) == {e \in dates : toordinal(e) <= toordinal(d)}
Latest(dates) == CHOOSE d \in dates : \A e \in dates : toordinal(e) <= toordinal(d)

\* past is n positions before current in the ascending list of the dates
PositionsBefore(dates, past, current, n) ==
    /\ past \in dates
    /\ toordinal(past) < toordinal(current)
    /\ Cardinality({e \in dates : /\ toordinal(past) <= toordinal(e)
                                  /\ toordinal(e) < toordinal(current)}) = n

C8_DayAnchorsByPosition ==
    (Done /\ request.unit = "day") =>
        IF UpTo(CommonDates(price_data), request.as_of_period) = {}
        THEN IsNone(anchors[1])
        ELSE /\ anchors[1] = Latest(UpTo(CommonDates(price_data), request.as_of_period))
             /\ IF Cardinality(Before(CommonDates(price_data), anchors[1])) < request.n
                THEN /\ IsNone(anchors[2])
                     /\ response.status = 200
                     /\ AllAbsent(response.results, request.tickers)
                     /\ IsNA(response.anchors.current)
                     /\ IsNA(response.anchors.past)
                ELSE PositionsBefore(CommonDates(price_data), anchors[2], anchors[1],
                                     request.n)

\* three common dates, n = 2: the past anchor is two positions before the current one
C8_Witness ==
    /\ Done
    /\ request.unit = "day"
    /\ request.n = 2
    /\ ~IsNone(anchors[1])
    /\ ~IsNone(anchors[2])
    /\ Cardinality(CommonDates(price_data)) = 3
    /\ Cardinality(Before(CommonDates(price_data), anchors[2])) = 0

(***************************************************************************)
(* C9 (as stated): from a flat list, fetch_prices drops exactly the rows   *)
(* missing a symbol, a date or a close; every row carrying all three,      *)
(* whatever their values, is a {date, close} point of its symbol's series, *)
(* and every series is sorted ascending by date.                           *)
(***************************************************************************)
FieldOf(row, keys) == row[CHOOSE k \in keys : k \in DOMAIN row]
Carries(row, keys) == keys \cap DOMAIN row # {}
CarriesAll(row) ==
    /\ Carries(row, {"symbol", "ticker", "Symbol"})
    /\ Carries(row, {"date", "Date"})
    /\ Carries(row, {"close", "Close"})

PointOf(row) ==
    [date |-> FieldOf(row, {"date", "Date"}), close |-> FieldOf(row, {"close", "Close"})]

InSeries(prices, sym, point) ==
    /\ sym \in DOMAIN prices
    /\ \E i \in 1..Len(prices[sym]) : prices[sym][i] = point

Ascending(series) ==
    \A i \in 1..Len(series), j \in 1..Len(series) :
        i < j => StrLE(series[i].date, series[j].date)

C9_ListKeepsEveryCompleteRow ==
    (Done /\ upstream.kind = "list") =>
        /\ \A i \in 1..Len(upstream.body) :
            CarriesAll(upstream.body[i]) =>
                InSeries(price_data,
                         FieldOf(upstream.body[i], {"symbol", "ticker", "Symbol"}),
                         PointOf(upstream.body[i]))
        /\ \A sym \in DOMAIN price_data :
            /\ Ascending(price_data[sym])
            /\ \A j \in 1..Len(price_data[sym]) :
                \E i \in 1..Len(upstream.body) :
                    /\ CarriesAll(upstream.body[i])
                    /\ FieldOf(upstream.body[i], {"symbol", "ticker", "Symbol"}) = sym
                    /\ PointOf(upstream.body[i]) = price_data[sym][j]

(***************************************************************************)
(* C10 (as stated): for unit = month the fetch window holds every calendar *)
(* day of the month before as_of_period (where the current anchor is       *)
(* looked for) and of the month n months before that month (where the      *)
(* past anchor is looked for).                                             *)
(***************************************************************************)
CurrentMonthLast(p) == FirstOfMonth(p) - 1
PastMonthFirst(p, n) ==
    relativedelta_months(relativedelta_months(FirstOfMonth(p), 0 - 1), 0 - n)

C10_MonthWindowCoversAnchorMonths ==
    (Answered /\ request.unit = "month") =>
        /\ toordinal(window[1]) <= PastMonthFirst(request.as_of_period, request.n)
        /\ CurrentMonthLast(request.as_of_period) <= toordinal(window[2])

====
